---------------------------- MODULE Spec2Model ----------------------------
(***************************************************************************)
(* A model of sierraecg/lib.py: read_file and the functions it calls.      *)
(*                                                                         *)
(* Representation.                                                         *)
(*   - An XML document is a record: `elements' is the set of element tags  *)
(*     present, each `*_attrs' field the set of attribute names present on *)
(*     one element, and the remaining fields the text of the elements and  *)
(*     attributes.  Numeric texts are held as the integer int() parses     *)
(*     them to.  The text of a Base64 payload is held as the byte sequence *)
(*     b64decode yields for it.                                            *)
(*   - A str that the code splits or formats (a lead label, the leadlabels *)
(*     attribute) is a sequence of one-character strings; every other str  *)
(*     is a TLA+ string.                                                   *)
(*   - A numpy int16 array is a record [data, writeable]; arithmetic on    *)
(*     its elements is int16 arithmetic (Wrap16).                          *)
(*   - A Python exception is a record [kind, msg]; a function that may     *)
(*     raise returns [err, val].                                           *)
(*   - Lists and dicts that outlive a call live in `heap', addressed by    *)
(*     object id, so that two names for one container are visible.         *)
(***************************************************************************)
EXTENDS Integers, Sequences, FiniteSets, TLC

VARIABLES
    doc,               \* the parsed document of the current read_file call
    include_repbeats,  \* the call's include_repbeats argument
    pc,                \* index of the next statement of read_file (0: raised)
    doc_type,          \* read_file local
    doc_ver,           \* read_file local
    leads,             \* read_file local: object id of the leads list
    labels,            \* read_file local
    sierra_ecg_file,   \* read_file local: the instance's attribute dict
    error,             \* the exception the call raised, if any
    trace,             \* the calls read_file has made so far, in order
    heap,              \* object id -> contents of a list or dict
    results,           \* what the calls so far returned, in order
    edits,             \* the caller's insertions so far: <<container, result index>>
    ncalls             \* read_file calls begun so far

vars == <<doc, include_repbeats, pc, doc_type, doc_ver, leads, labels,
          sierra_ecg_file, error, trace, heap, results, edits, ncalls>>

-----------------------------------------------------------------------------
(* Bounds of the model.                                                    *)

\* Most read_file calls in one behaviour (aliasing specification).
MaxCalls == 2
\* Most caller-side insertions into returned containers in one behaviour.
MaxEdits == 2
\* Longest uncompressed payload, in bytes.
MaxBytes == 8
\* Longest leadlabels attribute, in characters.
MaxLabelChars == 4
\* Largest numberofleads / numberchannelsallocated.
MaxChannels == 13
\* Most repbeat entries under repbeats.
MaxRepbeats == 2

-----------------------------------------------------------------------------
(* Python and numpy primitives.                                            *)

Min(a, b) == IF a <= b THEN a ELSE b
Max(a, b) == IF a >= b THEN a ELSE b

NoError == [kind |-> "none", msg |-> <<>>]
Raise(kind, msg) == [kind |-> kind, msg |-> msg]
Ok(v) == [err |-> NoError, val |-> v]
Fail(e) == [err |-> e, val |-> <<>>]
IsOk(r) == r.err = NoError

\* numpy.int16 holds a value modulo 2^16 in [-32768, 32767].
Int16Modulus == 65536
Int16Min == -32768
Int16Max == 32767
Wrap16(x) == ((x - Int16Min) % Int16Modulus) + Int16Min

\* math.floor(x / 2) for an int16 x: the quotient is exact in float64.
FloorHalf(x) == x \div 2

\* int(x) for a float x = n / d, d > 0: truncation toward zero.
TruncDiv(n, d) == IF n >= 0 THEN n \div d ELSE -((-n) \div d)

NDArray(data, writeable) == [data |-> data, writeable |-> writeable]

\* seq[lo:hi] for 0 <= lo <= hi (0-based, hi exclusive), clipped to the sequence.
Slice(seq, lo, hi) == SubSeq(seq, Min(lo, Len(seq)) + 1, Min(hi, Len(seq)))

\* seq[:n], n of either sign.
PyPrefix(seq, n) ==
    IF n >= 0 THEN SubSeq(seq, 1, Min(n, Len(seq)))
              ELSE SubSeq(seq, 1, Max(0, Len(seq) + n))

\* One little-endian int16 from two bytes.
Int16LE(lo, hi) == Wrap16(lo + 256 * hi)

RECURSIVE FromBufferData(_)
FromBufferData(bytes) ==
    IF Len(bytes) < 2 THEN <<>>
    ELSE <<Int16LE(bytes[1], bytes[2])>> \o FromBufferData(SubSeq(bytes, 3, Len(bytes)))

\* np.frombuffer(bytes, dtype=np.int16): a read-only view of an immutable
\* bytes object; a length that is no multiple of 2 raises ValueError.
frombuffer(bytes) ==
    IF Len(bytes) % 2 # 0
    THEN Fail(Raise("ValueError", <<"buffer size must be a multiple of element size">>))
    ELSE Ok(NDArray(FromBufferData(bytes), FALSE))

\* str(index) for index >= 0, as characters.
Digit(d) == <<"0", "1", "2", "3", "4", "5", "6", "7", "8", "9">>[d + 1]
RECURSIVE DecStr(_)
DecStr(n) == IF n < 10 THEN <<Digit(n)>> ELSE DecStr(n \div 10) \o <<Digit(n % 10)>>

\* s.split(" "): cut at every single space; empty tokens are kept.
RECURSIVE Split(_)
Split(s) ==
    IF \A k \in 1..Len(s) : s[k] # " " THEN <<s>>
    ELSE LET k == CHOOSE j \in 1..Len(s) :
                      s[j] = " " /\ \A i \in 1..(j - 1) : s[i] # " "
         IN  <<SubSeq(s, 1, k - 1)>> \o Split(SubSeq(s, k + 1, Len(s)))

-----------------------------------------------------------------------------
(* Document access: get_node, get_opt_node, get_attr.                      *)

get_opt_node(elements, tag_name) == tag_name \in elements

get_node(elements, tag_name) ==
    IF get_opt_node(elements, tag_name) THEN Ok(tag_name)
    ELSE Fail(Raise("MissingXmlElementError", <<tag_name>>))

\* get_attr(xdoc, attr_name, default): `value' is the attribute's text when it
\* is present; has_default is FALSE for default=None.
get_attr(attrs, attr_name, value, has_default, default) ==
    IF attr_name \in attrs THEN Ok(value)
    ELSE IF ~has_default THEN Fail(Raise("MissingXmlAttributeError", <<attr_name>>))
    ELSE Ok(default)

\* The error of the first call, in program order, that raised.
FirstErr(rs) ==
    IF \A i \in 1..Len(rs) : IsOk(rs[i]) THEN NoError
    ELSE rs[CHOOSE i \in 1..Len(rs) :
                ~IsOk(rs[i]) /\ \A j \in 1..(i - 1) : IsOk(rs[j])].err

-----------------------------------------------------------------------------
(* assert_version.                                                         *)

assert_version_and(d) ==
    LET found == FirstErr(<<get_node(d.elements, "documentinfo"),
                            get_node(d.elements, "documenttype"),
                            get_node(d.elements, "documentversion")>>)
    IN  IF found # NoError THEN Fail(found)
        ELSE IF /\ d.documenttype \notin {"SierraECG", "PhilipsECG"}
                /\ d.documentversion \notin {"1.03", "1.04", "1.04.01", "1.04.02"}
        THEN Fail(Raise("UnsupportedXmlFileError",
                        <<"Files of type", d.documenttype, d.documentversion,
                          "are unsupported">>))
        ELSE Ok(<<d.documenttype, d.documentversion>>)

assert_version(d) ==
    LET found == FirstErr(<<get_node(d.elements, "documentinfo"),
                            get_node(d.elements, "documenttype"),
                            get_node(d.elements, "documentversion")>>)
    IN  IF found # NoError THEN Fail(found)
        ELSE IF \/ d.documenttype \notin {"SierraECG", "PhilipsECG"}
                \/ d.documentversion \notin {"1.03", "1.04", "1.04.01", "1.04.02"}
        THEN Fail(Raise("UnsupportedXmlFileError",
                        <<"Files of type", d.documenttype, d.documentversion,
                          "are unsupported">>))
        ELSE Ok(<<d.documenttype, d.documentversion>>)

-----------------------------------------------------------------------------
(* get_lead_name, get_or_create_labels.                                    *)

Chars_Channel == <<"C", "h", "a", "n", "n", "e", "l", " ">>

get_lead_name_any_type(leads_used, index) ==
    IF index = 1 THEN <<"I">>
    ELSE IF index = 2 THEN <<"I", "I">>
    ELSE IF index = 3 THEN <<"I", "I", "I">>
    ELSE IF index = 4 THEN <<"a", "V", "R">>
    ELSE IF index = 5 THEN <<"a", "V", "L">>
    ELSE IF index = 6 THEN <<"a", "V", "F">>
    ELSE IF leads_used \in {"STD-12", "10-WIRE"} /\ index > 6 /\ index <= 12
         THEN <<"V">> \o DecStr(index - 6)
    ELSE Chars_Channel \o DecStr(index)

get_lead_name(leads_used, index) ==
    IF leads_used \in {"STD-12", "10-WIRE"} /\ index = 1 THEN <<"I">>
    ELSE IF leads_used \in {"STD-12", "10-WIRE"} /\ index = 2 THEN <<"I", "I">>
    ELSE IF leads_used \in {"STD-12", "10-WIRE"} /\ index = 3 THEN <<"I", "I", "I">>
    ELSE IF leads_used \in {"STD-12", "10-WIRE"} /\ index = 4 THEN <<"a", "V", "R">>
    ELSE IF leads_used \in {"STD-12", "10-WIRE"} /\ index = 5 THEN <<"a", "V", "L">>
    ELSE IF leads_used \in {"STD-12", "10-WIRE"} /\ index = 6 THEN <<"a", "V", "F">>
    ELSE IF leads_used \in {"STD-12", "10-WIRE"} /\ index > 6 /\ index <= 12
         THEN <<"V">> \o DecStr(index - 6)
    ELSE Chars_Channel \o DecStr(index)

get_or_create_labels(d) ==
    LET lead_labels == get_attr(d.pw_attrs, "leadlabels", d.leadlabels, TRUE, <<>>).val
    IN  IF lead_labels # <<>>
        THEN LET lead_count == get_attr(d.pw_attrs, "numberofleads", d.numberofleads,
                                        FALSE, 0)
             IN  IF ~IsOk(lead_count) THEN lead_count
                 ELSE Ok(PyPrefix(Split(lead_labels), lead_count.val))
        ELSE LET found == FirstErr(<<get_node(d.elements, "numberchannelsallocated"),
                                     get_node(d.elements, "acquisitiontype")>>)
             IN  IF found # NoError THEN Fail(found)
                 ELSE Ok([x \in 1..Max(0, d.numberchannelsallocated) |->
                              get_lead_name(d.acquisitiontype, x)])

-----------------------------------------------------------------------------
(* infer_compression, split_leads, get_waveform_data.                      *)

infer_compression_swapped(d) ==
    get_attr(d.pw_attrs, "compression", d.compression, TRUE,
             get_attr(d.pw_attrs, "compressmethod", d.compressmethod, TRUE,
                      "Uncompressed").val).val

infer_compression(d) ==
    get_attr(d.pw_attrs, "compressmethod", d.compressmethod, TRUE,
             get_attr(d.pw_attrs, "compression", d.compression, TRUE,
                      "Uncompressed").val).val

\* The while loop of split_leads, from `offset' on.
RECURSIVE SplitLoop(_, _, _, _)
SplitLoop(all_samples, lead_count, samples, offset) ==
    IF offset < lead_count * samples
    THEN <<NDArray(Slice(all_samples.data, offset, offset + samples),
                   all_samples.writeable)>>
         \o SplitLoop(all_samples, lead_count, samples, offset + samples)
    ELSE <<>>

split_leads(waveform_data, lead_count, samples) ==
    LET all_samples == frombuffer(waveform_data)
    IN  IF ~IsOk(all_samples) THEN all_samples
        ELSE Ok(SplitLoop(all_samples.val, lead_count, samples, 0))

\* int(duration * (sampling_freq / 1000)).  For a sampling_freq that is a
\* multiple of 125 the quotient sampling_freq / 1000 = k / 8 and the product
\* are exact in float64, and int() truncates toward zero.  The documents of
\* this model declare only such rates.
sample_count_of(duration, sampling_freq) ==
    TruncDiv(duration * (sampling_freq \div 125), 8)

\* xli_decode(data, labels): the codec of sierraecg.xli, opaque here.  `xli' is
\* what the codec makes of the document's payload: writable arrays, one per
\* chunk of the payload.
xli_decode(xli, lbls) == xli

\* Result: [err, val, calls], calls being the decoding calls made, in order.
get_waveform_data(d, lbls) ==
    LET found == FirstErr(<<get_node(d.elements, "samplingrate"),
                            get_attr(d.pw_attrs, "durationperchannel",
                                     d.durationperchannel, FALSE, 0),
                            get_attr(d.pw_attrs, "dataencoding", d.dataencoding,
                                     FALSE, "")>>)
        sample_count == sample_count_of(d.durationperchannel, d.samplingrate)
        compression_method == infer_compression(d)
    IN  IF found # NoError THEN [err |-> found, val |-> <<>>, calls |-> <<>>]
        ELSE IF d.dataencoding # "Base64"
        THEN [err |-> Raise("UnsupportedXmlFileError",
                            <<"Waveform data encoding unsupported:", d.dataencoding>>),
              val |-> <<>>, calls |-> <<>>]
        ELSE IF compression_method # "Uncompressed"
        THEN IF compression_method = "XLI"
             THEN [err |-> NoError, val |-> xli_decode(d.xli, lbls),
                   calls |-> <<"b64decode", "xli_decode">>]
             ELSE [err |-> Raise("UnsupportedXmlFileError",
                                 <<"Waveform data compression algorithm unsupported:",
                                   compression_method>>),
                   val |-> <<>>, calls |-> <<"b64decode">>]
        ELSE LET r == split_leads(d.text, Len(lbls), sample_count)
             IN  [err |-> r.err, val |-> r.val,
                  calls |-> <<"b64decode", "split_leads">>]

-----------------------------------------------------------------------------
(* assert_leads.                                                           *)

EcgLead(label, sampling_freq, duration, samples) ==
    [label |-> label, sampling_freq |-> sampling_freq, duration |-> duration,
     samples |-> samples]

\* Result: [err, val, calls]; val is <<leads, labels>>.
assert_leads(d) ==
    LET found == FirstErr(<<get_node(d.elements, "dataacquisition"),
                            get_node(d.elements, "signalcharacteristics"),
                            get_node(d.elements, "parsedwaveforms"),
                            get_node(d.elements, "samplingrate"),
                            get_attr(d.pw_attrs, "durationperchannel",
                                     d.durationperchannel, FALSE, 0)>>)
        lbls == get_or_create_labels(d)
        waveform_data == get_waveform_data(d, lbls.val)
    IN  IF found # NoError THEN [err |-> found, val |-> <<>>, calls |-> <<>>]
        ELSE IF ~IsOk(lbls)
        THEN [err |-> lbls.err, val |-> <<>>, calls |-> <<"get_or_create_labels">>]
        ELSE IF ~IsOk(waveform_data)
        THEN [err |-> waveform_data.err, val |-> <<>>,
              calls |-> <<"get_or_create_labels", "get_waveform_data">>
                        \o waveform_data.calls]
        ELSE IF Len(waveform_data.val) < Len(lbls.val)
        THEN [err |-> Raise("IndexError", <<"list index out of range">>),
              val |-> <<>>,
              calls |-> <<"get_or_create_labels", "get_waveform_data">>
                        \o waveform_data.calls]
        ELSE [err |-> NoError,
              val |-> <<[index \in 1..Len(lbls.val) |->
                            EcgLead(lbls.val[index], d.samplingrate,
                                    d.durationperchannel, waveform_data.val[index])],
                        lbls.val>>,
              calls |-> <<"get_or_create_labels", "get_waveform_data">>
                        \o waveform_data.calls]

-----------------------------------------------------------------------------
(* The derivation loops of read_file (lines 78-95).                        *)

\* One loop `for i in range(len(target)): target[i] = f(a[i], b[i], target[i])':
\* the right-hand side is evaluated before the store, so an index past the end
\* of a or b raises IndexError, and a store into a read-only array ValueError.
LoopErr(target, a, b) ==
    IF Len(target.data) = 0 THEN NoError
    ELSE IF Len(a.data) = 0 \/ Len(b.data) = 0
    THEN Raise("IndexError", <<"index out of bounds">>)
    ELSE IF ~target.writeable
    THEN Raise("ValueError", <<"assignment destination is read-only">>)
    ELSE IF Len(target.data) > Min(Len(a.data), Len(b.data))
    THEN Raise("IndexError", <<"index out of bounds">>)
    ELSE NoError

\* lead_iii[i] = lead_ii[i] - lead_i[i] - lead_iii[i]
CorrectIII(i, ii, iii) == Wrap16(Wrap16(ii - i) - iii)
\* lead_avr[i] = -lead_avr[i] - floor((lead_i[i] + lead_ii[i]) / 2)
CorrectAVR(i, ii, avr) == Wrap16(Wrap16(-avr) - FloorHalf(Wrap16(i + ii)))
\* lead_avl[i] = floor((lead_i[i] - lead_iii[i]) / 2) - lead_avl[i]
CorrectAVL(i, iii, avl) == Wrap16(FloorHalf(Wrap16(i - iii)) - avl)
\* lead_avf[i] = floor((lead_ii[i] + lead_iii[i]) / 2) - lead_avf[i]
CorrectAVF(ii, iii, avf) == Wrap16(FloorHalf(Wrap16(ii + iii)) - avf)

\* Lines 78-95 on the list `ls' of leads: [err, val], val the list afterwards.
derive_leads(ls) ==
    IF Len(ls) < 6 THEN Fail(Raise("IndexError", <<"list index out of range">>))
    ELSE
    LET lead_i == ls[1].samples
        lead_ii == ls[2].samples
        lead_iii == ls[3].samples
        lead_avr == ls[4].samples
        lead_avl == ls[5].samples
        lead_avf == ls[6].samples
        e1 == LoopErr(lead_iii, lead_i, lead_ii)
        iii2 == [lead_iii EXCEPT !.data = [i \in 1..Len(lead_iii.data) |->
                    CorrectIII(lead_i.data[i], lead_ii.data[i], lead_iii.data[i])]]
        e2 == LoopErr(lead_avr, lead_i, lead_ii)
        avr2 == [lead_avr EXCEPT !.data = [i \in 1..Len(lead_avr.data) |->
                    CorrectAVR(lead_i.data[i], lead_ii.data[i], lead_avr.data[i])]]
        e3 == LoopErr(lead_avl, lead_i, iii2)
        avl2 == [lead_avl EXCEPT !.data = [i \in 1..Len(lead_avl.data) |->
                    CorrectAVL(lead_i.data[i], iii2.data[i], lead_avl.data[i])]]
        e4 == LoopErr(lead_avf, lead_ii, iii2)
        avf2 == [lead_avf EXCEPT !.data = [i \in 1..Len(lead_avf.data) |->
                    CorrectAVF(lead_ii.data[i], iii2.data[i], lead_avf.data[i])]]
    IN  IF e1 # NoError THEN Fail(e1)
        ELSE IF e2 # NoError THEN Fail(e2)
        ELSE IF e3 # NoError THEN Fail(e3)
        ELSE IF e4 # NoError THEN Fail(e4)
        ELSE Ok([k \in 1..Len(ls) |->
                    IF k = 3 THEN [ls[k] EXCEPT !.samples = iii2]
                    ELSE IF k = 4 THEN [ls[k] EXCEPT !.samples = avr2]
                    ELSE IF k = 5 THEN [ls[k] EXCEPT !.samples = avl2]
                    ELSE IF k = 6 THEN [ls[k] EXCEPT !.samples = avf2]
                    ELSE ls[k]])

-----------------------------------------------------------------------------
(* assert_reps.                                                            *)

EcgRepbeat(label, sampling_freq, duration, resolution, method, samples) ==
    [label |-> label, sampling_freq |-> sampling_freq, duration |-> duration,
     resolution |-> resolution, method |-> method, samples |-> samples]

\* repbeats[key] = value on a dict held as a function from its keys.
DictSet(dict, key, value) ==
    [k \in (DOMAIN dict) \cup {key} |-> IF k = key THEN value ELSE dict[k]]

\* The body of the loop of assert_reps for one repbeat element: [err, val],
\* val the EcgRepbeat built from it.
repbeat_of(d, item) ==
    LET leadname == get_attr(item.attrs, "leadname", item.leadname, FALSE, "")
        duration == IF item.waveform
                    THEN get_attr(item.wf_attrs, "duration", item.wf_duration, FALSE, 0)
                    ELSE get_attr(item.attrs, "duration", item.duration, FALSE, 0)
        samples == frombuffer(IF item.waveform THEN item.wf_text ELSE item.text)
    IN  IF ~IsOk(leadname) THEN leadname
        ELSE IF ~IsOk(duration) THEN duration
        ELSE IF d.rb_dataencoding # "Base64"
        THEN Fail(Raise("UnsupportedXmlFileError",
                        <<"Representative beat waveform data encoding unsupported:",
                          d.rb_dataencoding>>))
        ELSE IF ~IsOk(samples) THEN samples
        ELSE Ok(EcgRepbeat(leadname.val,
                           get_attr(d.rb_attrs, "samplespersec", d.samplespersec,
                                    TRUE, 0).val,
                           duration.val,
                           get_attr(d.rb_attrs, "resolution", d.resolution, TRUE, 0).val,
                           get_attr(d.rb_attrs, "repbeatmethod", d.repbeatmethod,
                                    TRUE, "").val,
                           samples.val))

\* First-write-wins: an entry whose leadname is already stored is skipped.
RECURSIVE RepLoopKeepFirst(_, _, _, _)
RepLoopKeepFirst(d, items, k, repbeats) ==
    IF k > Len(items) THEN Ok(repbeats)
    ELSE LET repbeat == repbeat_of(d, items[k])
         IN  IF ~IsOk(repbeat) THEN repbeat
             ELSE RepLoopKeepFirst(d, items, k + 1,
                      IF repbeat.val.label \in DOMAIN repbeats THEN repbeats
                      ELSE DictSet(repbeats, repbeat.val.label, repbeat.val))

\* The loop of assert_reps from the k-th repbeat element on.
RECURSIVE RepLoop(_, _, _, _)
RepLoop(d, items, k, repbeats) ==
    IF k > Len(items) THEN Ok(repbeats)
    ELSE LET repbeat == repbeat_of(d, items[k])
         IN  IF ~IsOk(repbeat) THEN repbeat
             ELSE RepLoop(d, items, k + 1,
                          DictSet(repbeats, repbeat.val.label, repbeat.val))

assert_reps(d) ==
    IF ~get_opt_node(d.elements, "repbeats") THEN Ok(<<>>)
    ELSE LET encoding == get_attr(d.rb_attrs, "dataencoding", d.rb_dataencoding,
                                  FALSE, "")
         IN  IF ~IsOk(encoding) THEN encoding
             ELSE RepLoop(d, d.repbeat, 1, <<>>)

-----------------------------------------------------------------------------
(* read_file, statement by statement.                                      *)

\* The class attributes SierraEcgFile.leads and SierraEcgFile.repbeats are one
\* list and one dict, made when the class is: objects 1 and 2 of the heap.
ClassLeadsId == 1
ClassRepbeatsId == 2

\* SierraEcgFile(): what attribute lookup on a fresh instance yields, namely
\* the class attributes.
SierraEcgFile ==
    [doc_type |-> "", doc_ver |-> "", leads |-> ClassLeadsId,
     repbeats |-> ClassRepbeatsId]

\* The statements of read_file in program order; pc indexes this sequence.
read_file_body_leads_first ==
    <<"get_node", "assert_leads", "assert_version", "derive", "SierraEcgFile",
      "assert_reps", "return">>

read_file_body ==
    <<"get_node", "assert_version", "assert_leads", "derive", "SierraEcgFile",
      "assert_reps", "return">>

At(stmt) == pc \in 1..Len(read_file_body) /\ read_file_body[pc] = stmt
Raised == pc = 0
Returned == pc = Len(read_file_body) + 1

\* The statement at pc made `calls' and ended with `err'.
Advance(err, calls) ==
    /\ trace' = trace \o calls
    /\ error' = err
    /\ pc' = IF err = NoError THEN pc + 1 ELSE 0

\* root = get_node(xdom, "restingecgdata")
GetRoot ==
    /\ At("get_node")
    /\ Advance(get_node(doc.elements, "restingecgdata").err, <<"get_node">>)
    /\ UNCHANGED <<doc, include_repbeats, doc_type, doc_ver, leads, labels,
                   sierra_ecg_file, heap, results, edits, ncalls>>

\* (doc_type, doc_ver) = assert_version(root)
AssertVersion ==
    /\ At("assert_version")
    /\ LET r == assert_version(doc)
       IN  /\ Advance(r.err, <<"assert_version">>)
           /\ doc_type' = IF IsOk(r) THEN r.val[1] ELSE doc_type
           /\ doc_ver' = IF IsOk(r) THEN r.val[2] ELSE doc_ver
    /\ UNCHANGED <<doc, include_repbeats, leads, labels, sierra_ecg_file, heap,
                   results, edits, ncalls>>

\* leads, labels = assert_leads(root): the list built is a new object.
AssertLeads ==
    /\ At("assert_leads")
    /\ LET r == assert_leads(doc)
       IN  /\ Advance(r.err, <<"assert_leads">> \o r.calls)
           /\ heap' = IF IsOk(r) THEN Append(heap, r.val[1]) ELSE heap
           /\ leads' = IF IsOk(r) THEN Len(heap) + 1 ELSE leads
           /\ labels' = IF IsOk(r) THEN r.val[2] ELSE labels
    /\ UNCHANGED <<doc, include_repbeats, doc_type, doc_ver, sierra_ecg_file,
                   results, edits, ncalls>>

\* Lines 78-95: the sample arrays of the list are corrected in place.
Derive ==
    /\ At("derive")
    /\ LET r == derive_leads(heap[leads])
       IN  /\ Advance(r.err, <<"derive">>)
           /\ heap' = IF IsOk(r) THEN [heap EXCEPT ![leads] = r.val] ELSE heap
    /\ UNCHANGED <<doc, include_repbeats, doc_type, doc_ver, leads, labels,
                   sierra_ecg_file, results, edits, ncalls>>

\* Lines 97-100: a new instance; doc_type, doc_ver and leads are assigned.
Assemble ==
    /\ At("SierraEcgFile")
    /\ Advance(NoError, <<"SierraEcgFile">>)
    /\ sierra_ecg_file' = [SierraEcgFile EXCEPT !.doc_type = doc_type,
                                                !.doc_ver = doc_ver,
                                                !.leads = leads]
    /\ UNCHANGED <<doc, include_repbeats, doc_type, doc_ver, leads, labels, heap,
                   results, edits, ncalls>>

\* Lines 102-104: only with include_repbeats is repbeats assigned, and then to
\* the dict assert_reps built, a new object.
Reps ==
    /\ At("assert_reps")
    /\ IF include_repbeats
       THEN LET r == assert_reps(doc)
            IN  /\ Advance(r.err, <<"assert_reps">>)
                /\ heap' = IF IsOk(r) THEN Append(heap, r.val) ELSE heap
                /\ sierra_ecg_file' =
                       IF IsOk(r)
                       THEN [sierra_ecg_file EXCEPT !.repbeats = Len(heap) + 1]
                       ELSE sierra_ecg_file
       ELSE /\ Advance(NoError, <<>>)
            /\ UNCHANGED <<heap, sierra_ecg_file>>
    /\ UNCHANGED <<doc, include_repbeats, doc_type, doc_ver, leads, labels,
                   results, edits, ncalls>>

\* return sierra_ecg_file
Return ==
    /\ At("return")
    /\ Advance(NoError, <<"return">>)
    /\ results' = Append(results, sierra_ecg_file)
    /\ UNCHANGED <<doc, include_repbeats, doc_type, doc_ver, leads, labels,
                   sierra_ecg_file, heap, edits, ncalls>>

Next ==
    \/ GetRoot
    \/ AssertVersion
    \/ AssertLeads
    \/ Derive
    \/ Assemble
    \/ Reps
    \/ Return

\* The state in which a call of read_file on a document of `docs' begins, in a
\* fresh interpreter.
Begin(docs) ==
    /\ doc \in docs
    /\ include_repbeats \in BOOLEAN
    /\ pc = 1
    /\ doc_type = ""
    /\ doc_ver = ""
    /\ leads = 0
    /\ labels = <<>>
    /\ sierra_ecg_file = SierraEcgFile
    /\ error = NoError
    /\ trace = <<>>
    /\ heap = <<<<>>, <<>>>>
    /\ results = <<>>
    /\ edits = <<>>
    /\ ncalls = 1

-----------------------------------------------------------------------------
(* Documents.                                                              *)

RequiredElements ==
    {"restingecgdata", "documentinfo", "documenttype", "documentversion",
     "dataacquisition", "signalcharacteristics", "samplingrate",
     "numberchannelsallocated", "acquisitiontype", "parsedwaveforms"}

\* A writable one-sample-per-lead codec output.
XliOf(values) == [k \in 1..Len(values) |-> NDArray(<<values[k]>>, TRUE)]

\* A well-formed 1.03 document: six XLI-compressed leads of one sample each
\* (2 ms at 500 Hz), labels synthesized from STD-12, no repbeats element.
BaseDoc ==
    [elements |-> RequiredElements,
     documenttype |-> "SierraECG", documentversion |-> "1.03",
     samplingrate |-> 500, numberchannelsallocated |-> 6,
     acquisitiontype |-> "STD-12",
     pw_attrs |-> {"durationperchannel", "dataencoding", "compression"},
     durationperchannel |-> 2, numberofleads |-> 0, leadlabels |-> <<>>,
     dataencoding |-> "Base64", compressmethod |-> "", compression |-> "XLI",
     text |-> <<>>, xli |-> XliOf(<<2, 4, 1, 0, 0, 0>>),
     rb_attrs |-> {}, rb_dataencoding |-> "", samplespersec |-> 0,
     resolution |-> 0, repbeatmethod |-> "", repbeat |-> <<>>]

\* One repbeat element of the 1.04 layout (nested waveform) or of the 1.03
\* layout (duration and payload on the element itself).
RepbeatItem(leadname, has_leadname, waveform, text) ==
    [attrs |-> (IF has_leadname THEN {"leadname"} ELSE {})
               \cup (IF waveform THEN {} ELSE {"duration"}),
     leadname |-> leadname,
     duration |-> IF waveform THEN 0 ELSE 1200,
     text |-> IF waveform THEN <<>> ELSE text,
     waveform |-> waveform,
     wf_attrs |-> IF waveform THEN {"duration"} ELSE {},
     wf_duration |-> IF waveform THEN 1000 ELSE 0,
     wf_text |-> IF waveform THEN text ELSE <<>>]

\* BaseDoc with a repbeats element holding `items'.
WithRepbeats(d, encoding, items) ==
    [d EXCEPT !.elements = @ \cup {"repbeats"},
              !.rb_attrs = {"dataencoding", "samplespersec", "resolution",
                            "repbeatmethod"},
              !.rb_dataencoding = encoding, !.samplespersec = 1000,
              !.resolution = 5, !.repbeatmethod = "Average",
              !.repbeat = items]

\* All sequences over `alphabet' of length at most n.
RECURSIVE SeqsUpTo(_, _)
SeqsUpTo(alphabet, n) ==
    IF n = 0 THEN {<<>>}
    ELSE LET shorter == SeqsUpTo(alphabet, n - 1)
         IN  shorter \cup {Append(s, a) : s \in {t \in shorter : Len(t) = n - 1},
                                          a \in alphabet}

\* --- documents for the version gate ---------------------------------------
DocTypes == {"SierraECG", "PhilipsECG", "sierraecg", "MortaraECG", ""}
DocVersions == {"1.03", "1.04", "1.04.01", "1.04.02", "1.02", "1.04.03", "1.4", ""}

DocsVersion ==
    {[d EXCEPT !.documenttype = t, !.documentversion = v,
               !.elements = @ \ missing,
               !.dataencoding = enc, !.compression = cm] :
        d \in {BaseDoc,
               WithRepbeats(BaseDoc, "Base64",
                            <<RepbeatItem("I", TRUE, TRUE, <<1, 0>>)>>)},
        t \in DocTypes, v \in DocVersions,
        missing \in {{}, {"restingecgdata"}, {"documentinfo"}, {"documentversion"},
                     {"parsedwaveforms"}},
        enc \in {"Base64", "Hex"},
        cm \in {"XLI", "LZW"}}

Init == Begin(DocsVersion)
Spec == Init /\ [][Next]_vars

-----------------------------------------------------------------------------
(* What a state says about the call so far.                                *)

InTrace(c) == \E i \in DOMAIN trace : trace[i] = c
\* The statement that raised, when one did.
RaisedIn(c) == Raised /\ trace # <<>> /\ trace[Len(trace)] = c
\* assert_leads has returned.
LeadsResolved == leads # 0
\* The message of the exception raised has part a before part b.
ErrorNames(a, b) ==
    \E i, j \in DOMAIN error.msg : i < j /\ error.msg[i] = a /\ error.msg[j] = b
ErrorName(a) == \E i \in DOMAIN error.msg : error.msg[i] = a

HasVersionElements(d) ==
    {"documentinfo", "documenttype", "documentversion"} \subseteq d.elements

SupportedVersion(d) ==
    /\ d.documenttype \in {"SierraECG", "PhilipsECG"}
    /\ d.documentversion \in {"1.03", "1.04", "1.04.01", "1.04.02"}

-----------------------------------------------------------------------------
(* C3, C10: the version gate.                                              *)

\* C3: once assert_version has run on a document that has a documenttype and
\* a documentversion, the call has gone on (with doc_type and doc_ver as read)
\* exactly when the type is SierraECG or PhilipsECG and the version is 1.03,
\* 1.04, 1.04.01 or 1.04.02; in every other case assert_version has raised
\* UnsupportedXmlFileError with a message naming the type and the version.
C3_VersionAcceptedExactlyWhenSupported ==
    (InTrace("assert_version") /\ HasVersionElements(doc)) =>
        IF SupportedVersion(doc)
        THEN /\ ~RaisedIn("assert_version")
             /\ doc_type = doc.documenttype
             /\ doc_ver = doc.documentversion
        ELSE /\ RaisedIn("assert_version")
             /\ error.kind = "UnsupportedXmlFileError"
             /\ ErrorNames(doc.documenttype, doc.documentversion)

\* C3 witness: an allowed type with a version outside the list was rejected.
C3_Witness ==
    /\ RaisedIn("assert_version")
    /\ doc.documenttype = "PhilipsECG"
    /\ doc.documentversion = "1.04.03"
    /\ error.kind = "UnsupportedXmlFileError"

DecodingCalls ==
    {"assert_leads", "get_or_create_labels", "get_waveform_data", "b64decode",
     "split_leads", "xli_decode", "derive", "assert_reps"}

\* C10: every decoding call of a read_file run (lead geometry, payload
\* decoding, the codec, representative beats) comes after a call of
\* assert_version on a supported document; and a run on a document with an
\* unsupported type or version ends in the UnsupportedXmlFileError of
\* assert_version, with no decoding call made, whatever the waveform section
\* holds.
C10_VersionGateFirst ==
    /\ \A i \in DOMAIN trace :
          trace[i] \in DecodingCalls =>
              /\ \E j \in 1..(i - 1) : trace[j] = "assert_version"
              /\ SupportedVersion(doc)
    /\ (/\ (Raised \/ Returned)
        /\ "restingecgdata" \in doc.elements
        /\ HasVersionElements(doc)
        /\ ~SupportedVersion(doc)) =>
           /\ RaisedIn("assert_version")
           /\ error.kind = "UnsupportedXmlFileError"
           /\ ErrorNames(doc.documenttype, doc.documentversion)
           /\ \A i \in DOMAIN trace : trace[i] \notin DecodingCalls

\* C10 witness: an unsupported version was rejected although the waveform
\* section is missing and the declared encoding and compression are
\* unsupported too.
C10_Witness ==
    /\ RaisedIn("assert_version")
    /\ ~SupportedVersion(doc)
    /\ "parsedwaveforms" \notin doc.elements
    /\ doc.dataencoding = "Hex"
    /\ doc.compression = "LZW"
    /\ error.kind = "UnsupportedXmlFileError"

-----------------------------------------------------------------------------
(* C6: the compression method and the dispatch on it.                      *)

CompressionMethods == {"Uncompressed", "XLI", "LZW", "uncompressed", ""}

\* Six leads of one sample each, carried both ways: `text' is the payload read
\* as uncompressed (six little-endian values), `xli' what the codec returns.
DocsCompression ==
    {[BaseDoc EXCEPT !.pw_attrs = {"durationperchannel", "dataencoding"} \cup present,
                     !.compressmethod = m1, !.compression = m2,
                     !.dataencoding = enc,
                     !.text = <<2, 0, 4, 0, 1, 0, 0, 0, 255, 255, 0, 128>>] :
        present \in SUBSET {"compressmethod", "compression"},
        m1 \in CompressionMethods, m2 \in CompressionMethods,
        enc \in {"Base64", "Hex"}}

InitCompression == Begin(DocsCompression)
SpecCompression == InitCompression /\ [][Next]_vars

\* The method the document declares: compressmethod, else compression, else
\* the default.
DeclaredMethod(d) ==
    IF "compressmethod" \in d.pw_attrs THEN d.compressmethod
    ELSE IF "compression" \in d.pw_attrs THEN d.compression
    ELSE "Uncompressed"

\* The k-th block of n values of an even-length byte buffer, read as
\* little-endian signed 16-bit values.
BlockOf(bytes, k, n) ==
    [i \in 1..n |->
        LET pos == (k - 1) * n + i
            u == bytes[2 * pos - 1] + 256 * bytes[2 * pos]
        IN  IF u >= 32768 THEN u - 65536 ELSE u]

\* C6: once get_waveform_data has run on a Base64 payload, the method is
\* compressmethod when present, else compression when present, else
\* Uncompressed; for Uncompressed the buffer was block-split (split_leads, not
\* the codec) and each lead holds its block; for XLI the codec was called (not
\* split_leads) and, until the derivation, each lead holds what the codec
\* returned for it; for any other method the call
\* raised UnsupportedXmlFileError naming the method, with neither called.
C6_CompressionDispatch ==
    (InTrace("get_waveform_data") /\ doc.dataencoding = "Base64") =>
        LET method == DeclaredMethod(doc)
        IN  IF method = "Uncompressed"
            THEN /\ InTrace("split_leads") /\ ~InTrace("xli_decode")
                 /\ LeadsResolved
                 /\ \A k \in 1..6 :
                       heap[leads][k].samples.data = BlockOf(doc.text, k, 1)
            ELSE IF method = "XLI"
            THEN /\ InTrace("xli_decode") /\ ~InTrace("split_leads")
                 /\ LeadsResolved
                 /\ At("derive") =>
                       \A k \in 1..6 : heap[leads][k].samples = doc.xli[k]
            ELSE /\ Raised
                 /\ error.kind = "UnsupportedXmlFileError"
                 /\ ErrorName(method)
                 /\ ~InTrace("split_leads") /\ ~InTrace("xli_decode")

\* C6 witness: both attributes are present and disagree; compressmethod (XLI)
\* won over compression (LZW) and the codec was called.
C6_Witness ==
    /\ {"compressmethod", "compression"} \subseteq doc.pw_attrs
    /\ doc.compressmethod = "XLI"
    /\ doc.compression = "LZW"
    /\ doc.dataencoding = "Base64"
    /\ InTrace("xli_decode")
    /\ Returned

-----------------------------------------------------------------------------
(* C7, C5: lead labels, and documents with fewer than six leads.           *)

LabelChars == {"I", "V", " "}
AcquisitionTypes == {"STD-12", "10-WIRE", "STD-15", "std-12"}

\* d with an XLI payload that the codec decodes to one one-sample array per
\* label of d, as the codec's contract has it.
WithCodecLeadPerLabel(d) ==
    LET lbls == get_or_create_labels(d)
    IN  [d EXCEPT !.xli = IF IsOk(lbls)
                          THEN [k \in 1..Len(lbls.val) |-> NDArray(<<k>>, TRUE)]
                          ELSE <<>>]

\* Explicit labels: every leadlabels text over LabelChars, with and without
\* numberofleads.
DocsExplicitLabels ==
    {WithCodecLeadPerLabel(
        [BaseDoc EXCEPT !.pw_attrs = @ \cup {"leadlabels"} \cup count_attr,
                        !.leadlabels = text, !.numberofleads = n,
                        !.acquisitiontype = acq]) :
        text \in SeqsUpTo(LabelChars, MaxLabelChars),
        count_attr \in {{}, {"numberofleads"}},
        n \in 0..(MaxLabelChars + 1),
        acq \in {"STD-12", "STD-15"}}

\* Synthesized labels: no leadlabels attribute.
DocsSynthesizedLabels ==
    {WithCodecLeadPerLabel(
        [BaseDoc EXCEPT !.numberchannelsallocated = n, !.acquisitiontype = acq,
                        !.elements = @ \ missing]) :
        n \in 0..MaxChannels,
        acq \in AcquisitionTypes,
        missing \in {{}, {"numberchannelsallocated"}, {"acquisitiontype"}}}

DocsLabels == DocsExplicitLabels \cup DocsSynthesizedLabels

InitLabels == Begin(DocsLabels)
SpecLabels == InitLabels /\ [][Next]_vars

\* Tokens joined by single spaces.
RECURSIVE JoinSpaces(_)
JoinSpaces(tokens) ==
    IF Len(tokens) = 0 THEN <<>>
    ELSE IF Len(tokens) = 1 THEN tokens[1]
    ELSE tokens[1] \o <<" ">> \o JoinSpaces(Tail(tokens))

\* The label the claim gives channel `index' under acquisition type `acq'.
ClaimedLeadName(acq, index) ==
    IF acq \in {"STD-12", "10-WIRE"} /\ index \in 1..6
    THEN << <<"I">>, <<"I", "I">>, <<"I", "I", "I">>, <<"a", "V", "R">>,
            <<"a", "V", "L">>, <<"a", "V", "F">> >>[index]
    ELSE IF acq \in {"STD-12", "10-WIRE"} /\ index \in 7..12
    THEN <<"V", Digit(index - 6)>>
    ELSE <<"C", "h", "a", "n", "n", "e", "l", " ">> \o DecStr(index)

\* C7: once assert_leads has returned, `labels' is: with a non-empty
\* leadlabels attribute, the first numberofleads of its space-separated tokens
\* (all of them when there are fewer; the tokens being the pieces that,
\* joined by single spaces, give the attribute back, none holding a space);
\* otherwise one label per channel index 1..numberchannelsallocated, I, II,
\* III, aVR, aVL, aVF for 1-6 and V1..V6 for 7-12 when the acquisition type is
\* STD-12 or 10-WIRE, and `Channel <index>' for every other index or type.
C7_LabelsResolved ==
    LeadsResolved =>
        IF "leadlabels" \in doc.pw_attrs /\ doc.leadlabels # <<>>
        THEN \E tokens \in {Split(doc.leadlabels)} :
                /\ JoinSpaces(tokens) = doc.leadlabels
                /\ \A t \in DOMAIN tokens :
                      \A c \in DOMAIN tokens[t] : tokens[t][c] # " "
                /\ Len(labels) = Min(doc.numberofleads, Len(tokens))
                /\ \A k \in DOMAIN labels : labels[k] = tokens[k]
        ELSE /\ Len(labels) = doc.numberchannelsallocated
             /\ \A index \in DOMAIN labels :
                   labels[index] = ClaimedLeadName(doc.acquisitiontype, index)

\* C7 witness: STD-12 with eight channels gave I, II, III, aVR, aVL, aVF, V1,
\* V2.
C7_Witness ==
    /\ LeadsResolved
    /\ "leadlabels" \notin doc.pw_attrs
    /\ doc.acquisitiontype = "STD-12"
    /\ labels = << <<"I">>, <<"I", "I">>, <<"I", "I", "I">>, <<"a", "V", "R">>,
                   <<"a", "V", "L">>, <<"a", "V", "F">>, <<"V", "1">>,
                   <<"V", "2">> >>

\* C5 (as claimed): a call whose document resolves to fewer than six leads
\* does not fail after assert_leads: it skips the derivation and returns a
\* file whose leads carry the decoded samples unchanged.
C5_FewerThanSixLeadsReturned ==
    (LeadsResolved /\ Len(labels) < 6) =>
        /\ ~Raised
        /\ Returned =>
              \A k \in DOMAIN labels :
                  heap[results[1].leads][k].samples = doc.xli[k]

-----------------------------------------------------------------------------
(* C2, C4: uncompressed payloads.                                          *)

PayloadBytes == {0, 255}

\* Uncompressed documents: every payload of at most MaxBytes bytes, 0 to 6
\* synthesized leads, 0 to 4 samples per lead.
DocsSplit ==
    {[BaseDoc EXCEPT !.compression = "Uncompressed", !.xli = <<>>,
                     !.text = bytes, !.numberchannelsallocated = n,
                     !.durationperchannel = duration, !.samplingrate = rate] :
        bytes \in SeqsUpTo(PayloadBytes, MaxBytes),
        n \in {0, 1, 2, 3, 6},
        duration \in {0, 2, 3, 4},
        rate \in {500, 1000}}

InitSplit == Begin(DocsSplit)
SpecSplit == InitSplit /\ [][Next]_vars

\* The 16-bit values of an even-length byte buffer.
ValuesOf(bytes) == BlockOf(bytes, 1, Len(bytes) \div 2)

\* C2 (as claimed): once split_leads has run on a buffer of whole 16-bit
\* values, what it returned for (data, lead_count, sample_count) is exactly
\* lead_count sequences, sequence k (0-based) being the buffer's values at
\* positions k*sample_count .. (k+1)*sample_count - 1 (those of them the
\* buffer has), nothing at position lead_count*sample_count or later being
\* kept.
C2_SplitLeadsBlocks ==
    (InTrace("split_leads") /\ Len(doc.text) % 2 = 0) =>
        LET lead_count == doc.numberchannelsallocated
            n == (doc.durationperchannel * doc.samplingrate) \div 1000
            values == ValuesOf(doc.text)
            returned == split_leads(doc.text, lead_count, n).val
        IN  /\ Len(returned) = lead_count
            /\ \A k \in 0..(lead_count - 1) :
                  returned[k + 1].data =
                      [i \in 1..Max(0, Min(n, Len(values) - k * n)) |->
                          values[k * n + i]]

\* C4 (as claimed): in every file read_file returned for an uncompressed
\* payload, every lead has exactly floor(duration * sampling_freq / 1000)
\* samples.
C4_SampleCountOfReturnedLeads ==
    \A r \in DOMAIN results :
        DeclaredMethod(doc) = "Uncompressed" =>
            \A k \in DOMAIN heap[results[r].leads] :
                Len(heap[results[r].leads][k].samples.data)
                    = (doc.durationperchannel * doc.samplingrate) \div 1000


\* The part of C2 that holds: with at least one sample per lead, split_leads
\* returns lead_count sequences, each its contiguous block of the buffer.
C2_BlocksWhenSamplesPositive ==
    (/\ InTrace("split_leads")
     /\ Len(doc.text) % 2 = 0
     /\ (doc.durationperchannel * doc.samplingrate) \div 1000 >= 1) =>
        C2_SplitLeadsBlocks

-----------------------------------------------------------------------------
(* C1: the derivation of III, aVR, aVL and aVF.                            *)

LimbSamples == {Int16Min, -3, 2, 20000, Int16Max}
RawSamples == {-1, 0, 1}

\* Six or seven XLI leads of one sample each.
DocsDerive ==
    {[BaseDoc EXCEPT !.numberchannelsallocated = Len(values),
                     !.xli = XliOf(values)] :
        values \in {<<i, ii, iii, avr, avl, avf>> \o more :
                        i \in LimbSamples, ii \in LimbSamples,
                        iii \in RawSamples, avr \in RawSamples,
                        avl \in RawSamples, avf \in RawSamples,
                        more \in {<<>>, <<7>>}}}

InitDerive == Begin(DocsDerive)
SpecDerive == InitDerive /\ [][Next]_vars

FitsInt16(x) == Int16Min <= x /\ x <= Int16Max

\* C1 (as claimed): in every file read_file returned, for every sample index,
\* with I, II and the raw III, aVR, aVL, aVF as the codec gave them: each of
\* III = II - I - rawIII, aVR = -rawaVR - floor((I + II) / 2),
\* aVL = floor((I - III) / 2) - rawaVL and aVF = floor((II + III) / 2) - rawaVF
\* (III the corrected one) holds as exact integer arithmetic whenever its
\* right-hand side fits in 16 bits; I and II are as decoded.
C1_DerivationExact ==
    \A r \in DOMAIN results :
        LET out == heap[results[r].leads]
            sample(k, n) == out[k].samples.data[n]
            raw(k, n) == doc.xli[k].data[n]
        IN  \A n \in DOMAIN out[1].samples.data :
                LET III == raw(2, n) - raw(1, n) - raw(3, n)
                    aVR == -raw(4, n) - ((raw(1, n) + raw(2, n)) \div 2)
                    aVL == ((raw(1, n) - sample(3, n)) \div 2) - raw(5, n)
                    aVF == ((raw(2, n) + sample(3, n)) \div 2) - raw(6, n)
                IN  /\ sample(1, n) = raw(1, n)
                    /\ sample(2, n) = raw(2, n)
                    /\ FitsInt16(III) => sample(3, n) = III
                    /\ FitsInt16(aVR) => sample(4, n) = aVR
                    /\ FitsInt16(aVL) => sample(5, n) = aVL
                    /\ FitsInt16(aVF) => sample(6, n) = aVF

-----------------------------------------------------------------------------
(* C8: representative beats.                                               *)

\* repbeat elements of both layouts for two lead names and two payloads, one
\* without a leadname and one whose payload is no whole number of values.
RepbeatItems ==
    {RepbeatItem(name, TRUE, waveform, text) :
        name \in {"I", "II"}, waveform \in BOOLEAN,
        text \in {<<1, 0>>, <<2, 0, 255, 255>>}}
    \cup {RepbeatItem("I", FALSE, TRUE, <<1, 0>>),
          RepbeatItem("II", TRUE, FALSE, <<1>>)}

DocsReps ==
    {BaseDoc}
    \cup {[WithRepbeats(BaseDoc, encoding, items) EXCEPT !.rb_attrs = @ \ absent] :
            encoding \in {"Base64", "Hex"},
            items \in SeqsUpTo(RepbeatItems, MaxRepbeats),
            absent \in {{}, {"dataencoding"},
                        {"samplespersec", "resolution", "repbeatmethod"}}}

InitReps == Begin(DocsReps)
SpecReps == InitReps /\ [][Next]_vars

\* C8: in every file returned by a call that asked for representative beats,
\* repbeats is empty when the document has no repbeats element; otherwise its
\* keys are exactly the leadnames of the repbeat elements, and the beat under
\* a name is the one built from the last element of that name: its duration
\* and samples from the nested waveform when there is one, else from the
\* element itself, the rest from the attributes of repbeats or their defaults.
C8_RepbeatsLastWins ==
    /\ (include_repbeats /\ "repbeats" \notin doc.elements) =>
           ~RaisedIn("assert_reps")
    /\ \A r \in DOMAIN results :
           include_repbeats =>
               LET repbeats == heap[results[r].repbeats]
                   items == doc.repbeat
               IN  IF "repbeats" \notin doc.elements
                   THEN DOMAIN repbeats = {} /\ results[r].repbeats # ClassRepbeatsId
                   ELSE /\ DOMAIN repbeats = {items[k].leadname : k \in DOMAIN items}
                        /\ \A name \in DOMAIN repbeats :
                              LET last == CHOOSE k \in DOMAIN items :
                                             /\ items[k].leadname = name
                                             /\ \A j \in DOMAIN items :
                                                   items[j].leadname = name => j <= k
                                  item == items[last]
                                  beat == repbeats[name]
                              IN  /\ beat.label = name
                                  /\ beat.duration = IF item.waveform
                                                     THEN item.wf_duration
                                                     ELSE item.duration
                                  /\ beat.samples.data =
                                         ValuesOf(IF item.waveform THEN item.wf_text
                                                  ELSE item.text)
                                  /\ beat.sampling_freq =
                                         IF "samplespersec" \in doc.rb_attrs
                                         THEN doc.samplespersec ELSE 0
                                  /\ beat.resolution =
                                         IF "resolution" \in doc.rb_attrs
                                         THEN doc.resolution ELSE 0
                                  /\ beat.method =
                                         IF "repbeatmethod" \in doc.rb_attrs
                                         THEN doc.repbeatmethod ELSE ""

\* C8 witness: two repbeat elements named II, the first of the 1.03 layout,
\* the second with a nested waveform and another payload; the file returned
\* holds the second.
C8_Witness ==
    /\ Returned
    /\ include_repbeats
    /\ Len(doc.repbeat) = 2
    /\ doc.repbeat[1] = RepbeatItem("II", TRUE, FALSE, <<1, 0>>)
    /\ doc.repbeat[2] = RepbeatItem("II", TRUE, TRUE, <<2, 0, 255, 255>>)
    /\ DOMAIN heap[results[1].repbeats] = {"II"}
    /\ heap[results[1].repbeats]["II"].samples.data = <<2, -1>>
    /\ heap[results[1].repbeats]["II"].duration = 1000

\* A call that asked for representative beats of a document without a
\* repbeats element returned, with an empty mapping.
C8_WitnessAbsent ==
    /\ Returned
    /\ include_repbeats
    /\ "repbeats" \notin doc.elements
    /\ DOMAIN heap[results[1].repbeats] = {}

-----------------------------------------------------------------------------
(* C9: several calls in one interpreter, and a caller that adds entries to *)
(* the containers of the files it got.                                    *)

DocsAlias ==
    {BaseDoc,
     WithRepbeats(BaseDoc, "Base64", <<RepbeatItem("I", TRUE, TRUE, <<1, 0>>)>>),
     [BaseDoc EXCEPT !.documentversion = "1.02"]}

\* The caller, between two calls, calls read_file again.
Call ==
    /\ Raised \/ Returned
    /\ ncalls < MaxCalls
    /\ ncalls' = ncalls + 1
    /\ doc' \in DocsAlias
    /\ include_repbeats' \in BOOLEAN
    /\ pc' = 1
    /\ doc_type' = ""
    /\ doc_ver' = ""
    /\ leads' = 0
    /\ labels' = <<>>
    /\ sierra_ecg_file' = SierraEcgFile
    /\ error' = NoError
    /\ trace' = <<>>
    /\ UNCHANGED <<heap, results, edits>>

\* The caller does file.repbeats["X"] = beat on a file it got.
EditRepbeats ==
    /\ Raised \/ Returned
    /\ Len(edits) < MaxEdits
    /\ \E r \in DOMAIN results :
          /\ heap' = [heap EXCEPT ![results[r].repbeats] =
                         DictSet(@, "X", EcgRepbeat("X", 0, 0, 0, "",
                                                    NDArray(<<>>, TRUE)))]
          /\ edits' = Append(edits, <<"repbeats", r>>)
    /\ UNCHANGED <<doc, include_repbeats, pc, doc_type, doc_ver, leads, labels,
                   sierra_ecg_file, error, trace, results, ncalls>>

\* The caller does file.leads.append(lead) on a file it got.
EditLeads ==
    /\ Raised \/ Returned
    /\ Len(edits) < MaxEdits
    /\ \E r \in DOMAIN results :
          /\ heap' = [heap EXCEPT ![results[r].leads] =
                         Append(@, EcgLead(<<"X">>, 0, 0, NDArray(<<>>, TRUE)))]
          /\ edits' = Append(edits, <<"leads", r>>)
    /\ UNCHANGED <<doc, include_repbeats, pc, doc_type, doc_ver, leads, labels,
                   sierra_ecg_file, error, trace, results, ncalls>>

NextAlias ==
    \/ Next
    \/ Call
    \/ EditRepbeats
    \/ EditLeads

InitAlias == Begin(DocsAlias)
SpecAlias == InitAlias /\ [][NextAlias]_vars

\* C9 (as claimed): no two files returned share their leads list or their
\* repbeats mapping, so a file holds an entry the caller added (lead X, beat
\* X) only if the caller added it to that very file.
C9_ResultsOwnTheirContainers ==
    /\ \A i, j \in DOMAIN results :
          i # j => /\ results[i].leads # results[j].leads
                   /\ results[i].repbeats # results[j].repbeats
    /\ \A r \in DOMAIN results :
          /\ "X" \in DOMAIN heap[results[r].repbeats] =>
                \E e \in DOMAIN edits : edits[e] = <<"repbeats", r>>
          /\ (\E k \in DOMAIN heap[results[r].leads] :
                 heap[results[r].leads][k].label = <<"X">>) =>
                \E e \in DOMAIN edits : edits[e] = <<"leads", r>>

\* What does hold: every file returned has a leads list of its own.
C9_LeadsListsAreOwn ==
    \A i, j \in DOMAIN results :
        /\ results[i].leads # ClassLeadsId
        /\ i # j => results[i].leads # results[j].leads

=============================================================================
